---- MODULE Spec2Model ----
(***************************************************************************)
(* State-machine model of pycdt's DefectsAnalyzer                          *)
(* (pycdt/corrections/defects_analyzer.py) and of the VASP input writers   *)
(* (pycdcd/utils/vasp.py).                                                 *)
(*                                                                         *)
(* Numbers.  Energies, chemical potentials, band gap, Fermi level and band *)
(* edge corrections are exact integers counted in units of 0.1 eV.  The    *)
(* Fermi-level grid of get_transition_levels is counted in units of        *)
(* 1e-4 eV (nb_steps grid units per energy unit), which makes every grid   *)
(* point an integer.  Floating-point rounding is not modelled.             *)
(* exp() cannot be evaluated exactly; a concentration                      *)
(*   equiv_site_no * 1e30 / volume * exp(-E / (kb * temp))                 *)
(* is carried as the record [mult, en, temp] of the three quantities that  *)
(* determine it.                                                           *)
(***************************************************************************)
EXTENDS Integers, Sequences, FiniteSets, TLC

VARIABLES entry_bulk, e_vbm, mu_elts, band_gap, defects, formation_energies,
          call, vasp_in, vasp_fs, vasp_call

vars == <<entry_bulk, e_vbm, mu_elts, band_gap, defects, formation_energies,
          call, vasp_in, vasp_fs, vasp_call>>

analyzer_vars == <<entry_bulk, e_vbm, mu_elts, band_gap, defects,
                   formation_energies, call>>

vasp_vars == <<vasp_in, vasp_fs, vasp_call>>

\* ------------------------------------------------------------------------
\* Bounds of the model
\* ------------------------------------------------------------------------
MaxDefects == 2

MaxGap == 14

\* ------------------------------------------------------------------------
\* Generic helpers
\* ------------------------------------------------------------------------
Abs(n) == IF n < 0 THEN -n ELSE n

RECURSIVE SumOver(_, _)
SumOver(S, f) ==
    IF S = {} THEN 0
    ELSE LET x == CHOOSE y \in S : TRUE
         IN  f[x] + SumOver(S \ {x}, f)

SeqRange(s) == {s[i] : i \in 1..Len(s)}

\* ------------------------------------------------------------------------
\* Inputs: the bulk entry, the chemical potentials, the defects on offer
\* ------------------------------------------------------------------------
Elements == {"A", "B", "X"}

\* pymatgen's Composition[elt] is 0 for an element that is absent;
\* Composition.elements are the elements present.
CompElements(comp) == {el \in Elements : comp[el] # 0}

\* The symmetrized bulk structure: fractional coordinates, counted in
\* hundredths, and the class of symmetry-equivalent sites of each site.
BulkSites ==
    << [frac_coords |-> <<0, 0, 0>>,    equiv |-> 1],
       [frac_coords |-> <<50, 50, 50>>, equiv |-> 2],
       [frac_coords |-> <<50, 50, 0>>,  equiv |-> 2] >>

BulkEntries ==
    { [energy |-> -400, composition |-> [A |-> 2, B |-> 2, X |-> 0],
       structure |-> BulkSites] }

MuChoices ==
    { [A |-> -30, B |-> -50, X |-> -20] }

\* str(charge) for the charges of the model
StrOfCharge(q) ==
    CASE q = -2 -> "-2" [] q = -1 -> "-1" [] q = 0 -> "0"
      [] q = 1 -> "1"   [] q = 2 -> "2"

\* ParsedDefect.__init__; full_name is the concatenation of its three parts
ParsedDefect(entry_defect, site_in_bulk, charge, charge_correction, name) ==
    [entry |-> entry_defect, site |-> site_in_bulk, charge |-> charge,
     charge_correction |-> charge_correction, name |-> name,
     full_name |-> <<name, "_", StrOfCharge(charge)>>]

VacComp == [A |-> 1, B |-> 2, X |-> 0]

DefectPool ==
    { ParsedDefect([energy |-> -350, composition |-> VacComp],
                   <<0, 0, 0>>, 0, 0, "Vac_A"),
      ParsedDefect([energy |-> -323, composition |-> VacComp],
                   <<2, 0, 1>>, -1, 0, "Vac_A"),
      ParsedDefect([energy |-> -275, composition |-> VacComp],
                   <<0, 0, 0>>, -2, 0, "Vac_A"),
      ParsedDefect([energy |-> -390,
                    composition |-> [A |-> 2, B |-> 1, X |-> 1]],
                   <<52, 49, 50>>, 1, 1, "Sub_X"),
      ParsedDefect([energy |-> -440,
                    composition |-> [A |-> 2, B |-> 2, X |-> 1]],
                   <<25, 25, 25>>, 2, 0, "Int_X") }

ChargeCorrections == {0, 1}

VbmCorrections == {0, 2}

CbmCorrections == {0, 3}

\* Fermi levels and temperatures handed to the concentration queries
FermiLevels == {0, 4}

Temperatures == {300}

SynthesisTemperatures == {900}

\* dict_levels arguments of correct_bg: {defect_name: {'type':.., 'q*':..}}
DictLevelsChoices ==
    { <<>>,
      ("Vac_A" :> [type |-> "vbm_like", qstar |-> 0]),
      ("Vac_A" :> [type |-> "cbm_like", qstar |-> -2])
          @@ ("Sub_X" :> [type |-> "vbm_like", qstar |-> 1]) }

NoCall == [op |-> "__init__", status |-> "ok"]

\* ------------------------------------------------------------------------
\* DefectsAnalyzer._compute_form_en
\* ------------------------------------------------------------------------
\* A plausible slip: compensating the elements of the bulk instead of the
\* elements of the defect.
FormEnBulkElts(d, bulk, mu, evbm) ==
    LET coeffs == [elt \in CompElements(bulk.composition) |->
                       bulk.composition[elt] - d.entry.composition[elt]]
        sum_mus == SumOver(DOMAIN coeffs,
                           [elt \in DOMAIN coeffs |-> coeffs[elt] * mu[elt]])
    IN  d.entry.energy - bulk.energy + sum_mus + d.charge * evbm
            + d.charge_correction

\* body of the loop over self._defects
FormEn(d, bulk, mu, evbm) ==
    LET mu_needed_coeffs == [elt \in CompElements(d.entry.composition) |->
                                 bulk.composition[elt] - d.entry.composition[elt]]
        sum_mus == SumOver(DOMAIN mu_needed_coeffs,
                           [elt \in DOMAIN mu_needed_coeffs |->
                                mu_needed_coeffs[elt] * mu[elt]])
    IN  d.entry.energy - bulk.energy + sum_mus + d.charge * evbm
            + d.charge_correction

ComputeFormEn(defs, bulk, mu, evbm) ==
    [i \in 1..Len(defs) |-> FormEn(defs[i], bulk, mu, evbm)]

\* ------------------------------------------------------------------------
\* Mutators of DefectsAnalyzer
\* ------------------------------------------------------------------------
add_parsed_defect ==
    /\ Len(defects) < MaxDefects
    /\ \E d \in DefectPool :
          /\ defects' = Append(defects, d)
          /\ formation_energies' =
                 ComputeFormEn(defects', entry_bulk, mu_elts, e_vbm)
          /\ call' = [op |-> "add_parsed_defect", status |-> "ok"]
    /\ UNCHANGED <<entry_bulk, e_vbm, mu_elts, band_gap>>
    /\ UNCHANGED vasp_vars

change_charge_correction ==
    /\ \E i \in 1..Len(defects), correction \in ChargeCorrections :
          /\ defects' = [defects EXCEPT ![i].charge_correction = correction]
          /\ formation_energies' =
                 ComputeFormEn(defects', entry_bulk, mu_elts, e_vbm)
          /\ call' = [op |-> "change_charge_correction", status |-> "ok"]
    /\ UNCHANGED <<entry_bulk, e_vbm, mu_elts, band_gap>>
    /\ UNCHANGED vasp_vars

correct_bg_simple ==
    /\ \E vbm_correct \in VbmCorrections, cbm_correct \in CbmCorrections :
          /\ band_gap + cbm_correct + vbm_correct <= MaxGap
          /\ band_gap' = band_gap + cbm_correct + vbm_correct
          /\ e_vbm' = e_vbm - vbm_correct
          /\ formation_energies' =
                 ComputeFormEn(defects, entry_bulk, mu_elts, e_vbm')
          /\ call' = [op |-> "correct_bg_simple", status |-> "ok"]
    /\ UNCHANGED <<entry_bulk, mu_elts, defects>>
    /\ UNCHANGED vasp_vars

\* the shift the loop of correct_bg adds to self._formation_energies[i]
LevelShift(d, dict_levels, vbm_correct, cbm_correct) ==
    IF d.name \notin DOMAIN dict_levels THEN 0
    ELSE (IF dict_levels[d.name].type = "vbm_like"
          THEN (d.charge - dict_levels[d.name].qstar) * vbm_correct
          ELSE 0)
         +
         (IF dict_levels[d.name].type = "cbm_like"
          THEN (dict_levels[d.name].qstar - d.charge) * cbm_correct
          ELSE 0)

correct_bg ==
    /\ \E dict_levels \in DictLevelsChoices,
          vbm_correct \in VbmCorrections, cbm_correct \in CbmCorrections :
          /\ band_gap + cbm_correct + vbm_correct <= MaxGap
          /\ band_gap' = band_gap + cbm_correct + vbm_correct
          /\ e_vbm' = e_vbm - vbm_correct
          /\ formation_energies' =
                 [i \in 1..Len(defects) |->
                     ComputeFormEn(defects, entry_bulk, mu_elts, e_vbm')[i]
                       + LevelShift(defects[i], dict_levels,
                                    vbm_correct, cbm_correct)]
          /\ call' = [op |-> "correct_bg", status |-> "ok",
                      dict_levels |-> dict_levels]
    /\ UNCHANGED <<entry_bulk, mu_elts, defects>>
    /\ UNCHANGED vasp_vars

\* ------------------------------------------------------------------------
\* DefectsAnalyzer.get_transition_levels
\* ------------------------------------------------------------------------
nb_steps == 1000

\* xlim = (-0.5, self._band_gap + 1.5), in energy units of 0.1 eV
XlimLow == -5

XlimHighOffset == 15

\* y_absdiff.min() < 0.4, in energy units of 0.1 eV
LevelTol == 4

\* A plausible slip: the grid started at 0 instead of xlim[0]
GridXFromZero(k, bg) == k * ((bg + XlimHighOffset) - XlimLow)

\* x = np.arange(xlim[0], xlim[1], (xlim[1]-xlim[0])/nb_steps): the grid has
\* the points xlim[0] + k*step, k = 0..nb_steps-1.  GridX is nb_steps times
\* the k-th point, which is an integer.
GridX(k, bg) == XlimLow * nb_steps + k * ((bg + XlimHighOffset) - XlimLow)

GridIndices == 0..(nb_steps - 1)

\* y[dfct._name][dfct._charge] = yval: a later defect of the same name and
\* charge overwrites an earlier one.  The index of the defect whose curve is
\* kept for (name, q):
CurveIndex(defs, name, q) ==
    CHOOSE i \in 1..Len(defs) :
        /\ defs[i].name = name
        /\ defs[i].charge = q
        /\ \A j \in (i+1)..Len(defs) :
               ~(defs[j].name = name /\ defs[j].charge = q)

ChargesOf(defs, name) ==
    {defs[i].charge : i \in {j \in 1..Len(defs) : defs[j].name = name}}

\* nb_steps * yval[k] for the defect at index i
YVal(fes, defs, i, k, bg) == fes[i] * nb_steps + defs[i].charge * GridX(k, bg)

MinOfSet(S) == CHOOSE m \in S : \A n \in S : m <= n

\* np.argmin: the first index at which the minimum is attained
ArgMin(f, m) ==
    CHOOSE k \in DOMAIN f : f[k] = m /\ \A j \in 0..(k - 1) : f[j] # m

\* combinations(q_ys.keys(), 2): the unordered pairs of distinct charges
ChargePairs(defs, name) ==
    {qp \in SUBSET ChargesOf(defs, name) : Cardinality(qp) = 2}

\* nb_steps * y_absdiff for the pair qp of charges of defect name
YAbsDiff(fes, defs, bg, name, qp) ==
    LET qa == CHOOSE q \in qp : TRUE
        qb == CHOOSE q \in qp : q # qa
        ia == CurveIndex(defs, name, qa)
        ib == CurveIndex(defs, name, qb)
    IN  [k \in GridIndices |->
            Abs(YVal(fes, defs, ib, k, bg) - YVal(fes, defs, ia, k, bg))]

\* if y_absdiff.min() < 0.4
IsLevel(ymin) == ymin < LevelTol * nb_steps

\* The result: one record per key (dfct_name, qpair) of transit_levels; the
\* level is nb_steps times the grid point x[np.argmin(y_absdiff)].
TransitLevels(fes, defs, bg) ==
    LET names == {defs[i].name : i \in 1..Len(defs)}
        keys  == UNION { {<<n, qp>> : qp \in ChargePairs(defs, n)} : n \in names }
        entry(n, qp) ==
            LET ad   == YAbsDiff(fes, defs, bg, n, qp)
                ymin == MinOfSet({ad[k] : k \in GridIndices})
            IN  IF IsLevel(ymin)
                THEN {[name |-> n, qpair |-> qp,
                       level |-> GridX(ArgMin(ad, ymin), bg)]}
                ELSE {}
    IN  UNION { entry(key[1], key[2]) : key \in keys }

get_transition_levels ==
    /\ call' = [op |-> "get_transition_levels", status |-> "ok",
                result |-> TransitLevels(formation_energies, defects, band_gap)]
    /\ UNCHANGED <<entry_bulk, e_vbm, mu_elts, band_gap, defects,
                   formation_energies>>
    /\ UNCHANGED vasp_vars

\* ------------------------------------------------------------------------
\* DefectsAnalyzer.get_defects_concentration
\* ------------------------------------------------------------------------
_get_form_energy(fes, defs, ef, i) == fes[i] + defs[i].charge * ef

\* the test of the inner loop: within 0.1 in each fractional coordinate
NearSite(s, df_coords) ==
    /\ Abs(s.frac_coords[1] - df_coords[1]) < 10
    /\ Abs(s.frac_coords[2] - df_coords[2]) < 10
    /\ Abs(s.frac_coords[3] - df_coords[3]) < 10

\* index in struct.sites of target_site; 0 stands for None
TargetSite(struct, df_coords) ==
    IF \E k \in 1..Len(struct) : NearSite(struct[k], df_coords)
    THEN CHOOSE k \in 1..Len(struct) :
            /\ NearSite(struct[k], df_coords)
            /\ \A j \in 1..(k-1) : ~NearSite(struct[j], df_coords)
    ELSE 0

\* len(struct.find_equivalent_sites(target_site)) for a site of the
\* structure
EquivSiteNo(struct, k) ==
    Cardinality({j \in 1..Len(struct) : struct[j].equiv = struct[k].equiv})

\* SymmetrizedStructure.find_equivalent_sites raises ValueError for a site
\* that is not in the structure, which is what target_site = None is.
DefectsConcentration(bulk, fes, defs, temp, ef) ==
    LET struct == bulk.structure
        bad == {i \in 1..Len(defs) : TargetSite(struct, defs[i].site) = 0}
    IN  IF bad # {}
        THEN [status |-> "ValueError"]
        ELSE [status |-> "ok",
              result |->
                [i \in 1..Len(defs) |->
                   [name |-> defs[i].name, charge |-> defs[i].charge,
                    conc |-> [mult |-> EquivSiteNo(struct,
                                          TargetSite(struct, defs[i].site)),
                              en |-> _get_form_energy(fes, defs, ef, i),
                              temp |-> temp]]]]

get_defects_concentration ==
    /\ \E temp \in Temperatures, ef \in FermiLevels :
          call' = [op |-> "get_defects_concentration", temp |-> temp,
                   ef |-> ef]
                  @@ DefectsConcentration(entry_bulk, formation_energies,
                                          defects, temp, ef)
    /\ UNCHANGED <<entry_bulk, e_vbm, mu_elts, band_gap, defects,
                   formation_energies>>
    /\ UNCHANGED vasp_vars

\* ------------------------------------------------------------------------
\* DefectsAnalyzer.get_eq_ef and get_non_eq_ef
\* ------------------------------------------------------------------------
\* _get_qd: the terms charge * conc of the summation, in order
_get_qd(bulk, fes, defs, ef, t) ==
    LET c == DefectsConcentration(bulk, fes, defs, t, ef)
    IN  IF c.status # "ok" THEN [status |-> c.status]
        ELSE [status |-> "ok",
              terms |-> [i \in 1..Len(defs) |->
                            <<c.result[i].charge, c.result[i].conc>>]]

\* _get_qi ends with "return el_cnt + hl_cnt"; neither name is bound in the
\* function or the module (the integrals are stored in elec_count and
\* hole_count), so evaluating the return expression raises NameError.
_get_qi(bg, ef, t) == [status |-> "NameError"]

\* _get_qtot: the left operand of + is evaluated first
_get_qtot(bulk, fes, defs, bg, ef, t) ==
    LET qd == _get_qd(bulk, fes, defs, ef, t)
        qi == _get_qi(bg, ef, t)
    IN  IF qd.status # "ok" THEN [status |-> qd.status]
        ELSE IF qi.status # "ok" THEN [status |-> qi.status]
        ELSE [status |-> "ok", qd |-> qd.terms, qi |-> qi.value]

\* scipy.optimize.bisect(f, a, b) evaluates f(a) first; an exception raised
\* by f leaves bisect.  When f returns, the root is a point of [a, b] at
\* which f vanishes up to the tolerance.
EqEf(bulk, fes, defs, bg, t) ==
    LET fa == _get_qtot(bulk, fes, defs, bg, 0, t)
    IN  IF fa.status # "ok" THEN [status |-> fa.status]
        ELSE LET ef == CHOOSE e \in 0..bg :
                          _get_qtot(bulk, fes, defs, bg, e, t).status = "ok"
             IN  [status |-> "ok", ef |-> ef,
                  Qi |-> _get_qi(bg, ef, t),
                  QD |-> _get_qd(bulk, fes, defs, ef, t),
                  conc |-> DefectsConcentration(bulk, fes, defs, t, ef).result]

get_eq_ef ==
    /\ \E t \in Temperatures :
          call' = [op |-> "get_eq_ef", t |-> t]
                  @@ EqEf(entry_bulk, formation_energies, defects,
                          band_gap, t)
    /\ UNCHANGED <<entry_bulk, e_vbm, mu_elts, band_gap, defects,
                   formation_energies>>
    /\ UNCHANGED vasp_vars

\* the names of eqsyn['conc'] in the order of their first record: the keys
\* of cd
RECURSIVE CdNames(_)
CdNames(conc) ==
    IF conc = <<>> THEN <<>>
    ELSE LET front == CdNames(SubSeq(conc, 1, Len(conc) - 1))
             n == conc[Len(conc)].name
         IN  IF n \in SeqRange(front) THEN front ELSE Append(front, n)

\* _get_non_eq_conc: for each name of cd, one record per defect of that
\* name; conc = cd[n] * exp(-E_i/(kb*t)) / sum_tot is carried as the name
\* whose frozen total it shares, the energy of its own Boltzmann factor and
\* the energies of the factors in sum_tot.
RECURSIVE _get_non_eq_conc(_, _, _, _, _)
_get_non_eq_conc(names, fes, defs, ef, t) ==
    IF names = <<>> THEN <<>>
    ELSE LET n == Head(names)
             idx == {i \in 1..Len(defs) : defs[i].name = n}
             rec(i) == [name |-> defs[i].name, charge |-> defs[i].charge,
                        conc |-> [total_of |-> n,
                                  en |-> _get_form_energy(fes, defs, ef, i),
                                  sum_tot |-> [j \in idx |->
                                      _get_form_energy(fes, defs, ef, j)],
                                  temp |-> t]]
             RECURSIVE block(_)
             block(i) == IF i > Len(defs) THEN <<>>
                         ELSE IF i \in idx THEN <<rec(i)>> \o block(i + 1)
                         ELSE block(i + 1)
         IN  block(1) \o _get_non_eq_conc(Tail(names), fes, defs, ef, t)

\* _get_non_eq_qd: for each name of cd the term cd[n] * sum_q / sum_d,
\* carried as the name and the energies of the Boltzmann factors
_get_non_eq_qd(names, fes, defs, ef, t) ==
    [status |-> "ok",
     terms |-> [k \in 1..Len(names) |->
                  [total_of |-> names[k],
                   factors |-> [i \in {j \in 1..Len(defs) :
                                          defs[j].name = names[k]} |->
                                  <<defs[i].charge,
                                    _get_form_energy(fes, defs, ef, i)>>]]]]

_get_non_eq_qtot(names, fes, defs, bg, ef, t) ==
    LET qd == _get_non_eq_qd(names, fes, defs, ef, t)
        qi == _get_qi(bg, ef, t)
    IN  IF qi.status # "ok" THEN [status |-> qi.status]
        ELSE [status |-> "ok", qd |-> qd.terms, qi |-> qi.value]

\* bisect over [-1.0, band_gap + 1.0], in energy units of 0.1 eV
NonEqEf(bulk, fes, defs, bg, tsyn, teq) ==
    LET eqsyn == EqEf(bulk, fes, defs, bg, tsyn)
    IN  IF eqsyn.status # "ok" THEN [status |-> eqsyn.status]
        ELSE LET cd == CdNames(eqsyn.conc)
                 fa == _get_non_eq_qtot(cd, fes, defs, bg, -10, teq)
             IN  IF fa.status # "ok" THEN [status |-> fa.status]
                 ELSE LET ef == CHOOSE e \in (-10)..(bg + 10) :
                                   _get_non_eq_qtot(cd, fes, defs, bg, e,
                                                    teq).status = "ok"
                      IN  [status |-> "ok", ef |-> ef,
                           Qi |-> _get_qi(bg, ef, teq),
                           conc_syn |-> eqsyn.conc,
                           conc |-> _get_non_eq_conc(cd, fes, defs, ef, teq)]

get_non_eq_ef ==
    /\ \E tsyn \in SynthesisTemperatures, teq \in Temperatures :
          call' = [op |-> "get_non_eq_ef", tsyn |-> tsyn, teq |-> teq]
                  @@ NonEqEf(entry_bulk, formation_energies, defects,
                             band_gap, tsyn, teq)
    /\ UNCHANGED <<entry_bulk, e_vbm, mu_elts, band_gap, defects,
                   formation_energies>>
    /\ UNCHANGED vasp_vars

\* ------------------------------------------------------------------------
\* Serialization: as_dict and from_dict
\* ------------------------------------------------------------------------
ParsedDefectAsDict(d) ==
    [entry |-> d.entry, site |-> d.site, charge |-> d.charge,
     charge_correction |-> d.charge_correction, name |-> d.name,
     full_name |-> d.full_name]

ParsedDefectFromDict(dd) ==
    ParsedDefect(dd.entry, dd.site, dd.charge, dd.charge_correction, dd.name)

AsDict(bulk, evbm, mu, bg, defs, fes) ==
    [entry_bulk |-> bulk, e_vbm |-> evbm, mu_elts |-> mu, band_gap |-> bg,
     defects |-> [i \in 1..Len(defs) |-> ParsedDefectAsDict(defs[i])],
     formation_energies |-> fes]

\* DefectsAnalyzer.from_dict builds an analyzer with no defects and calls
\* analyzer.add_defect for each entry of d['defects'].  The class defines
\* add_parsed_defect and no add_defect: the attribute lookup raises
\* AttributeError at the first entry, before ParsedDefect.from_dict runs.
FromDict(d) ==
    IF Len(d.defects) > 0
    THEN [status |-> "AttributeError"]
    ELSE [status |-> "ok",
          result |-> [entry_bulk |-> d.entry_bulk, e_vbm |-> d.e_vbm,
                      mu_elts |-> [el \in DOMAIN d.mu_elts |-> d.mu_elts[el]],
                      band_gap |-> d.band_gap,
                      defects |-> <<>>, formation_energies |-> <<>>]]

\* DefectsAnalyzer.from_dict(a.as_dict())
from_dict ==
    /\ call' = [op |-> "from_dict"]
               @@ FromDict(AsDict(entry_bulk, e_vbm, mu_elts, band_gap,
                                  defects, formation_energies))
    /\ UNCHANGED <<entry_bulk, e_vbm, mu_elts, band_gap, defects,
                   formation_energies>>
    /\ UNCHANGED vasp_vars

\* ------------------------------------------------------------------------
\* pycdcd/utils/vasp.py: the inputs
\* ------------------------------------------------------------------------
\* A structure is carried as its composition and reduced formula.
Supercell ==
    [size |-> <<2, 2, 2>>,
     structure |-> [composition |-> [A |-> 8, B |-> 8, X |-> 0],
                    reduced_formula |-> "AB"]]

VacSupercell ==
    [size |-> <<2, 2, 2>>,
     structure |-> [composition |-> [A |-> 7, B |-> 8, X |-> 0],
                    reduced_formula |-> "A7B8"]]

SubSupercell ==
    [size |-> <<2, 2, 2>>,
     structure |-> [composition |-> [A |-> 8, B |-> 7, X |-> 1],
                    reduced_formula |-> "A8B7X"]]

Vac1 == [name |-> "vac_1_A", unique_site |-> <<0, 0, 0>>,
         charges |-> <<0, 1>>, supercell |-> VacSupercell]

Vac2 == [name |-> "vac_2_A", unique_site |-> <<50, 50, 0>>,
         charges |-> <<-1>>, supercell |-> VacSupercell]

Sub1 == [name |-> "sub_1_X_on_B", unique_site |-> <<50, 50, 50>>,
         charges |-> <<-1, 0, 1>>, supercell |-> SubSupercell]

\* The bulk entry is read as bulk_sys['supercell']['size'] and as
\* bulk_sys['structure']: an entry that keeps its structure beside its size
\* under 'supercell', as every defect entry does, and one that also has a
\* 'structure' key of its own.
BulkSystems ==
    { [name |-> "bulk", supercell |-> Supercell],
      [name |-> "bulk", supercell |-> Supercell,
       structure |-> Supercell.structure] }

\* The defects dictionary: 'bulk' and any of the defect categories
VaspDefectDicts ==
    { ("bulk" :> b) @@ v @@ u :
        b \in BulkSystems,
        v \in { <<>>, ("vacancies" :> <<>>), ("vacancies" :> <<Vac1>>),
                ("vacancies" :> <<Vac1, Vac2>>) },
        u \in { <<>>, ("substitutions" :> <<>>),
                ("substitutions" :> <<Sub1>>) } }

\* POTCAR of MPVaspInputSet: one entry per species, with its electrons
NElectrons == [A |-> 3, B |-> 5, X |-> 2]

Potcar(structure) ==
    {[element |-> el, nelectrons |-> NElectrons[el]] :
        el \in CompElements(structure.composition)}

\* INCAR of MPVaspInputSet().get_all_vasp_input, before the updates
BaseIncar == [ALGO |-> "Fast", ISPIN |-> 2, NSW |-> 99]

HseSettings ==
    [LHFCALC |-> TRUE, ALGO |-> "All", HFSCREEN |-> "0.2",
     PRECFOCK |-> "Fast", AEXX |-> "0.45"]

\* dict.update: the keys of upd replace those of incar
Update(incar, upd) == upd @@ incar

VaspFiles == {"INCAR", "KPOINTS", "POSCAR", "POTCAR", "transformations.json"}

\* ------------------------------------------------------------------------
\* make_vasp_defect_files
\* ------------------------------------------------------------------------
\* reduce(lambda x, y: x + y, lists) without an initial value
RECURSIVE Concat(_)
Concat(lists) ==
    IF Len(lists) = 1 THEN lists[1]
    ELSE Concat(SubSeq(lists, 1, Len(lists) - 1)) \o lists[Len(lists)]

\* the (defect, charge) pairs in the order of the two nested loops
RECURSIVE DefectChargePairs(_)
DefectChargePairs(comb_defs) ==
    IF comb_defs = <<>> THEN <<>>
    ELSE [k \in 1..Len(Head(comb_defs).charges) |->
             [defect |-> Head(comb_defs),
              charge |-> Head(comb_defs).charges[k]]]
         \o DefectChargePairs(Tail(comb_defs))

DefectIncar(defect, charge, hse) ==
    LET s == defect.supercell
        comp == s.structure.composition
        base == Update(BaseIncar,
                  [IBRION |-> 2, ISIF |-> 2, ISPIN |-> 2, LWAVE |-> FALSE,
                   EDIFF |-> "1e-5", EDIFFG |-> "-1e-2", ISMEAR |-> 0,
                   SIGMA |-> "0.05", LVTOT |-> TRUE, LVHAR |-> TRUE,
                   LORBIT |-> 11, ALGO |-> "Fast"])
        withhse == IF hse THEN Update(base, HseSettings) ELSE base
        pot == Potcar(s.structure)
        sum_elec == SumOver({p.element : p \in pot},
                            [el \in {p.element : p \in pot} |->
                                comp[el] * NElectrons[el]])
    IN  IF charge # 0
        THEN Update(withhse, [NELECT |-> sum_elec - charge])
        ELSE withhse

\* the directory written by one pass of the inner loop
DefectDir(path_base, defect, charge, hse) ==
    [path |-> <<path_base, defect.name, <<"charge", StrOfCharge(charge)>> >>,
     files |-> VaspFiles,
     incar |-> DefectIncar(defect, charge, hse),
     transf |-> [defect_type |-> defect.name,
                 defect_site |-> defect.unique_site,
                 charge |-> charge, supercell |-> defect.supercell.size]]

\* os.makedirs raises OSError when the directory exists
RECURSIVE WriteDefectDirs(_, _, _, _)
WriteDefectDirs(fs, path_base, pairs, hse) ==
    IF pairs = <<>> THEN [status |-> "ok", fs |-> fs]
    ELSE LET dir == DefectDir(path_base, Head(pairs).defect,
                              Head(pairs).charge, hse)
         IN  IF \E k \in 1..Len(fs) : fs[k].path = dir.path
             THEN [status |-> "OSError", fs |-> fs]
             ELSE WriteDefectDirs(Append(fs, dir), path_base, Tail(pairs), hse)

BulkIncar(hse) ==
    LET base == Update(BaseIncar,
                  [IBRION |-> -1, NSW |-> 0, ISPIN |-> 2, LWAVE |-> FALSE,
                   EDIFF |-> "1e-5", ISMEAR |-> 0, SIGMA |-> "0.05",
                   LVTOT |-> TRUE, LVHAR |-> TRUE, ALGO |-> "Fast"])
    IN  IF hse THEN Update(base, HseSettings) ELSE base

\* the part after the loops: s = bulk_sys, s['supercell']['size'], then
\* s['structure'], which raises KeyError for an entry without that key
WriteBulkDir(fs, path_base, bulk_sys, hse) ==
    IF "structure" \notin DOMAIN bulk_sys
    THEN [status |-> "KeyError", fs |-> fs]
    ELSE IF \E k \in 1..Len(fs) : fs[k].path = <<path_base, "bulk">>
    THEN [status |-> "OSError", fs |-> fs]
    ELSE [status |-> "ok",
          fs |-> Append(fs,
                   [path |-> <<path_base, "bulk">>,
                    files |-> VaspFiles,
                    incar |-> BulkIncar(hse),
                    transf |-> [defect_type |-> "bulk",
                                supercell |-> bulk_sys.supercell.size]])]

\* keys is the order in which the dictionary yields its keys other than
\* 'bulk'.  reduce() of an empty sequence with no initial value raises
\* TypeError.
MakeVaspDefectFiles(fs, defs, keys, path_base, hse) ==
    LET bulk_sys == defs["bulk"]
    IN  IF keys = <<>>
        THEN [status |-> "TypeError", fs |-> fs]
        ELSE LET comb_defs == Concat([k \in 1..Len(keys) |-> defs[keys[k]]])
                 loops == WriteDefectDirs(fs, path_base,
                                          DefectChargePairs(comb_defs), hse)
             IN  IF loops.status # "ok" THEN loops
                 ELSE WriteBulkDir(loops.fs, path_base, bulk_sys, hse)

KeyOrders(defs) ==
    LET ks == DOMAIN defs \ {"bulk"}
    IN  {o \in UNION {[1..n -> ks] : n \in 0..Cardinality(ks)} :
            /\ Len(o) = Cardinality(ks)
            /\ \A a, b \in 1..Len(o) : a # b => o[a] # o[b]}

make_vasp_defect_files ==
    /\ \E keys \in KeyOrders(vasp_in.defects) :
          LET r == MakeVaspDefectFiles(vasp_fs, vasp_in.defects, keys,
                                       "path_base", vasp_in.hse)
          IN  /\ vasp_fs' = r.fs
              /\ vasp_call' = [op |-> "make_vasp_defect_files",
                               status |-> r.status]
    /\ UNCHANGED vasp_in
    /\ UNCHANGED analyzer_vars

\* ------------------------------------------------------------------------
\* make_vasp_dielectric_files
\* ------------------------------------------------------------------------
\* The first statement reads s['structure']; the function has the
\* parameters struct, user_settings and hse and binds no s, and the module
\* has no global s: the statement raises NameError and nothing is written.
MakeVaspDielectricFiles(fs, struct, hse) ==
    [status |-> "NameError", fs |-> fs]

make_vasp_dielectric_files ==
    /\ \E struct \in {Supercell.structure, SubSupercell.structure} :
          LET r == MakeVaspDielectricFiles(vasp_fs, struct, vasp_in.hse)
          IN  /\ vasp_fs' = r.fs
              /\ vasp_call' = [op |-> "make_vasp_dielectric_files",
                               status |-> r.status,
                               struct |-> struct]
    /\ UNCHANGED vasp_in
    /\ UNCHANGED analyzer_vars

\* ------------------------------------------------------------------------
\* Specification of the analyzer
\* ------------------------------------------------------------------------
VaspIdle ==
    /\ vasp_in = [defects |-> ("bulk" :> [name |-> "bulk",
                                          supercell |-> Supercell]),
                  hse |-> FALSE]
    /\ vasp_fs = <<>>
    /\ vasp_call = NoCall

Init ==
    /\ entry_bulk \in BulkEntries
    /\ e_vbm \in {20}
    /\ mu_elts \in MuChoices
    /\ band_gap \in {10}
    /\ defects = <<>>
    /\ formation_energies = <<>>
    /\ call = NoCall
    /\ VaspIdle

\* the operations other than get_transition_levels
Next ==
    \/ add_parsed_defect
    \/ change_charge_correction
    \/ correct_bg_simple
    \/ correct_bg
    \/ get_defects_concentration
    \/ get_eq_ef
    \/ get_non_eq_ef
    \/ from_dict

Spec == Init /\ [][Next]_vars

\* the operations that change the analyzer, and get_transition_levels
NextLevels ==
    \/ add_parsed_defect
    \/ change_charge_correction
    \/ correct_bg_simple
    \/ correct_bg
    \/ get_transition_levels

SpecLevels == Init /\ [][NextLevels]_vars

\* ------------------------------------------------------------------------
\* Specification of the VASP input writers
\* ------------------------------------------------------------------------
InitVasp ==
    /\ entry_bulk \in BulkEntries
    /\ e_vbm = 20
    /\ mu_elts \in MuChoices
    /\ band_gap = 10
    /\ defects = <<>>
    /\ formation_energies = <<>>
    /\ call = NoCall
    /\ vasp_in \in [defects : VaspDefectDicts, hse : BOOLEAN]
    /\ vasp_fs = <<>>
    /\ vasp_call = NoCall

NextVasp ==
    \/ make_vasp_defect_files
    \/ make_vasp_dielectric_files

SpecVasp == InitVasp /\ [][NextVasp]_vars

\* ------------------------------------------------------------------------
\* Properties
\* ------------------------------------------------------------------------
\* The bookkeeping value of the formation energy of defect d, written out
\* term by term for the three elements of the model.
MuTerm(d, elt) ==
    IF d.entry.composition[elt] # 0
    THEN (entry_bulk.composition[elt] - d.entry.composition[elt])
             * mu_elts[elt]
    ELSE 0

BookValue(d, evbm) ==
    d.entry.energy - entry_bulk.energy
      + MuTerm(d, "A") + MuTerm(d, "B") + MuTerm(d, "X")
      + d.charge * evbm + d.charge_correction

\* C1: after add_parsed_defect, change_charge_correction or
\* correct_bg_simple (and after construction) _formation_energies has one
\* entry per defect, in the order of _defects, and entry i is
\* E_defect_i - E_bulk + sum over the elements of defect i of
\* (n_bulk - n_defect_i) * mu + charge_i * e_vbm + charge_correction_i with
\* the current e_vbm and charge corrections.
C1_Bookkeeping ==
    call.op \in {"__init__", "add_parsed_defect", "change_charge_correction",
                 "correct_bg_simple"}
    => /\ DOMAIN formation_energies = 1..Len(defects)
       /\ \A i \in 1..Len(defects) :
             formation_energies[i] = BookValue(defects[i], e_vbm)

\* a state in which the invariant of C1 has work to do: a charge correction
\* was just changed on a list of two defects, one of them charged and
\* holding a foreign element, after the VBM had been moved
C1_Witness ==
    /\ call.op = "change_charge_correction"
    /\ Len(defects) = 2
    /\ e_vbm # 20
    /\ \E i \in 1..Len(defects) :
          /\ defects[i].charge # 0
          /\ defects[i].charge_correction # 0
          /\ defects[i].entry.composition["X"] # 0

\* C2 (as claimed): get_eq_ef returns a dict with 'ef', 'Qi' and 'conc', ef
\* lies in [0, band_gap] and 'conc' is the list get_defects_concentration
\* gives at that ef and t.
C2_EqEfReturnsSolution ==
    call.op = "get_eq_ef"
    => /\ call.status = "ok"
       /\ {"ef", "Qi", "conc"} \subseteq DOMAIN call
       /\ call.ef \in 0..band_gap
       /\ Len(call.conc) = Len(defects)
       /\ \A i \in 1..Len(defects) :
             /\ call.conc[i].name = defects[i].name
             /\ call.conc[i].charge = defects[i].charge
             /\ call.conc[i].conc.en =
                    formation_energies[i] + defects[i].charge * call.ef
             /\ call.conc[i].conc.temp = call.t

\* C3 (as claimed): get_non_eq_ef returns 'conc' with one record per defect
\* of the analyzer, each sharing the total that its name had in 'conc_syn'.
C3_NonEqFreezesTotals ==
    call.op = "get_non_eq_ef"
    => /\ call.status = "ok"
       /\ {"ef", "Qi", "conc", "conc_syn"} \subseteq DOMAIN call
       /\ Len(call.conc) = Len(defects)
       /\ Len(call.conc_syn) = Len(defects)
       /\ \A k \in 1..Len(call.conc) :
             /\ call.conc[k].conc.total_of = call.conc[k].name
             /\ call.conc[k].conc.temp = call.teq
             /\ \E i \in 1..Len(defects) :
                   /\ defects[i].name = call.conc[k].name
                   /\ defects[i].charge = call.conc[k].charge
                   /\ call.conc[k].conc.en =
                        formation_energies[i] + defects[i].charge * call.ef

\* C4 (as claimed): a correct_bg call leaves every transition level of a
\* 'vbm_like' name at its distance above the VBM and every transition level
\* of a 'cbm_like' name at its distance below the CBM, and gives a name
\* absent from dict_levels the formation energies of correct_bg_simple.
\* The level of the charge states i, j of one name, measured from the VBM,
\* is (E_i - E_j) / (q_j - q_i); the charges do not change, so the level
\* keeps its distance above the VBM iff E_i - E_j is unchanged, and its
\* distance below the CBM iff E_i - E_j grows by
\* (q_j - q_i) * (band_gap' - band_gap).
C4_LevelsFollowBandEdges ==
    [][ call'.op = "correct_bg" =>
          \A i \in 1..Len(defects) :
            LET name == defects[i].name
                dl   == call'.dict_levels
            IN  /\ name \notin DOMAIN dl
                     => formation_energies'[i] = BookValue(defects[i], e_vbm')
                /\ \A j \in 1..Len(defects) :
                     (/\ defects[j].name = name
                      /\ defects[j].charge # defects[i].charge
                      /\ name \in DOMAIN dl)
                     => /\ dl[name].type = "vbm_like"
                           => formation_energies'[i] - formation_energies'[j]
                                = formation_energies[i] - formation_energies[j]
                        /\ dl[name].type = "cbm_like"
                           => (formation_energies'[i] - formation_energies'[j])
                                - (formation_energies[i] - formation_energies[j])
                                = (defects[j].charge - defects[i].charge)
                                    * (band_gap' - band_gap)
      ]_vars

\* C5 (as claimed): correct_bg_simple(vbm_correct, cbm_correct) adds
\* cbm_correct + vbm_correct to band_gap, subtracts vbm_correct from e_vbm,
\* leaves defects and chemical potentials alone and changes the formation
\* energy of defect i by exactly -charge_i * vbm_correct.
C5_SimpleShiftsByCharge ==
    [][ call'.op = "correct_bg_simple" =>
          \E vbm_correct \in VbmCorrections, cbm_correct \in CbmCorrections :
            /\ band_gap' = band_gap + cbm_correct + vbm_correct
            /\ e_vbm' = e_vbm - vbm_correct
            /\ defects' = defects
            /\ mu_elts' = mu_elts
            /\ DOMAIN formation_energies' = 1..Len(defects)
            /\ \A i \in 1..Len(defects) :
                  formation_energies'[i] =
                      formation_energies[i] - defects[i].charge * vbm_correct
      ]_vars

\* C6 (as claimed): DefectsAnalyzer.from_dict(a.as_dict()) succeeds for any
\* number of defects and yields the e_vbm, band_gap, mu_elts, defects (name,
\* charge, charge_correction, full_name) and formation energies of a.
C6_RoundTrip ==
    call.op = "from_dict"
    => /\ call.status = "ok"
       /\ call.result.e_vbm = e_vbm
       /\ call.result.band_gap = band_gap
       /\ call.result.mu_elts = mu_elts
       /\ Len(call.result.defects) = Len(defects)
       /\ \A i \in 1..Len(defects) :
             /\ call.result.defects[i].name = defects[i].name
             /\ call.result.defects[i].charge = defects[i].charge
             /\ call.result.defects[i].charge_correction
                    = defects[i].charge_correction
             /\ call.result.defects[i].full_name
                    = <<defects[i].name, "_",
                        StrOfCharge(defects[i].charge)>>
       /\ call.result.formation_energies = formation_energies

\* The curve of charge q of a name is that of the last defect with that
\* name and charge.
LastOf(name, q) ==
    CHOOSE i \in 1..Len(defects) :
        /\ defects[i].name = name /\ defects[i].charge = q
        /\ \A j \in 1..Len(defects) :
              (defects[j].name = name /\ defects[j].charge = q) => j <= i

\* 1000 * |E_q1(x_k) - E_q2(x_k)| in units of 0.1 eV at the k-th point
\* x_k = -0.5 eV + k * (band_gap + 2 eV) / 1000 of the grid, where
\* cross = E_q1(0) - E_q2(0) and dq = q2 - q1
GridPoint1000(k) == -5000 + k * (band_gap + 20)

Gap1000(cross, dq, k) == Abs(dq * GridPoint1000(k) - 1000 * cross)

LevelsAsClaimed(result) ==
    /\ \A r \in result :
          /\ Cardinality(r.qpair) = 2
          /\ \A q \in r.qpair :
                \E i \in 1..Len(defects) :
                    defects[i].name = r.name /\ defects[i].charge = q
          /\ \A r2 \in result :
                (r2.name = r.name /\ r2.qpair = r.qpair) => r2 = r
    /\ \A i, j \in 1..Len(defects) :
          (/\ defects[i].name = defects[j].name
           /\ defects[i].charge < defects[j].charge
           /\ i = LastOf(defects[i].name, defects[i].charge)
           /\ j = LastOf(defects[j].name, defects[j].charge))
          => LET name == defects[i].name
                 q1 == defects[i].charge
                 q2 == defects[j].charge
                 dq == q2 - q1
                 hit == {r \in result : r.name = name /\ r.qpair = {q1, q2}}
                 \* the exact crossing is cross / dq, in 0.1 eV
                 cross == formation_energies[i] - formation_energies[j]
             IN  /\ (hit # {}) <=>
                       (\E k \in 0..999 : Gap1000(cross, dq, k) < 4000)
                 /\ \A r \in hit :
                       /\ \E k \in 0..999 :
                             /\ r.level = GridPoint1000(k)
                             /\ \A m \in 0..999 :
                                   Gap1000(cross, dq, k)
                                      <= Gap1000(cross, dq, m)
                       /\ (/\ -5 * dq <= cross
                           /\ cross <= (band_gap + 15) * dq)
                          => Abs(r.level * dq - 1000 * cross)
                                <= (band_gap + 20) * dq

\* C7: get_transition_levels returns a level for a pair of distinct charge
\* states of one name iff the least |E_q1 - E_q2| over the 1000-point grid
\* from -0.5 eV up to band_gap + 1.5 eV is below 0.4 eV; the level is the
\* grid point where that difference is least, within one grid step of the
\* exact crossing when the crossing lies in the window; charge states of
\* different names give no level; the analyzer is not modified.
C7_TransitionLevels ==
    [][ call'.op = "get_transition_levels" =>
          /\ UNCHANGED <<entry_bulk, e_vbm, mu_elts, band_gap, defects,
                         formation_energies>>
          /\ call'.status = "ok"
          /\ LevelsAsClaimed(call'.result)
      ]_vars

\* get_transition_levels has returned a level for a pair of charge states
\* whose exact crossing lies in the grid window and off the grid
C7_Witness ==
    /\ call.op = "get_transition_levels"
    /\ \E r \in call.result :
          \E i, j \in 1..Len(defects) :
             /\ defects[i].name = r.name
             /\ defects[j].name = r.name
             /\ defects[i].charge < defects[j].charge
             /\ r.qpair = {defects[i].charge, defects[j].charge}
             /\ LET dq == defects[j].charge - defects[i].charge
                    cross == formation_energies[LastOf(r.name, defects[i].charge)]
                               - formation_energies[LastOf(r.name, defects[j].charge)]
                IN  /\ -5 * dq <= cross
                    /\ cross <= (band_gap + 15) * dq
                    /\ r.level * dq # 1000 * cross

\* C8 (as claimed): get_defects_concentration(temp, ef) succeeds for every
\* defect and returns one record per defect, in order, with the defect's
\* name and charge, the number of bulk sites equivalent to its site and
\* the energy formation_energy_i + charge_i * ef in the exponent.
C8_OneRecordPerDefect ==
    call.op = "get_defects_concentration"
    => /\ call.status = "ok"
       /\ Len(call.result) = Len(defects)
       /\ \A i \in 1..Len(defects) :
             /\ call.result[i].name = defects[i].name
             /\ call.result[i].charge = defects[i].charge
             /\ call.result[i].conc.en =
                    formation_energies[i] + defects[i].charge * call.ef
             /\ call.result[i].conc.temp = call.temp
             /\ call.result[i].conc.mult >= 1

\* C9 (as claimed): make_vasp_defect_files, called on a fresh path_base,
\* writes one directory path_base/<name>/charge<q> with the five files for
\* every (defect, charge) pair and then path_base/bulk with the five files
\* and defect_type 'bulk'; the bulk directory comes last.
C9_DefectAndBulkDirs ==
    [][ (vasp_call'.op = "make_vasp_defect_files" /\ vasp_fs = <<>>) =>
          LET defs == vasp_in.defects
              pairs == { <<k, n, c>> \in
                           (DOMAIN defs \ {"bulk"}) \X (1..2) \X (1..3) :
                             /\ n <= Len(defs[k])
                             /\ c <= Len(defs[k][n].charges) }
              last == Len(vasp_fs')
          IN  /\ vasp_call'.status = "ok"
              /\ last = Cardinality(pairs) + 1
              /\ vasp_fs'[last].path = <<"path_base", "bulk">>
              /\ vasp_fs'[last].files = VaspFiles
              /\ vasp_fs'[last].transf.defect_type = "bulk"
              /\ \A p \in pairs :
                    LET d == defs[p[1]][p[2]]
                        q == d.charges[p[3]]
                    IN  \E k \in 1..(last - 1) :
                          /\ vasp_fs'[k].path =
                               <<"path_base", d.name,
                                 <<"charge", StrOfCharge(q)>> >>
                          /\ vasp_fs'[k].files = VaspFiles
                          /\ vasp_fs'[k].transf =
                               [defect_type |-> d.name,
                                defect_site |-> d.unique_site,
                                charge |-> q,
                                supercell |-> d.supercell.size]
      ]_vars

\* C10 (as claimed): make_vasp_dielectric_files(struct) completes without
\* error and writes INCAR (IBRION=8, LEPSILON, LEPAD, NSW=0), KPOINTS,
\* POSCAR and POTCAR into <reduced formula of struct>/dielectric.
C10_DielectricFiles ==
    [][ vasp_call'.op = "make_vasp_dielectric_files" =>
          /\ vasp_call'.status = "ok"
          /\ \E k \in 1..Len(vasp_fs') :
                /\ vasp_fs'[k].path =
                      <<vasp_call'.struct.reduced_formula, "dielectric">>
                /\ {"INCAR", "KPOINTS", "POSCAR", "POTCAR"}
                      \subseteq vasp_fs'[k].files
                /\ vasp_fs'[k].incar.IBRION = 8
                /\ vasp_fs'[k].incar.LEPSILON = TRUE
                /\ vasp_fs'[k].incar.LEPAD = TRUE
                /\ vasp_fs'[k].incar.NSW = 0
      ]_vars

====
